---- MODULE Spec2Model ----
(***************************************************************************)
(* Model of the two components of the server fragment:                     *)
(*   app/middleware/errorHandler.js  - catchErrors and the HTTP error      *)
(*                                     pipeline (notFound,                 *)
(*                                     flashValidationErrors,              *)
(*                                     developmentErrors, productionErrors)*)
(*   app/config/socket.config.js     - SocketServer (joinRoom / outRoom /  *)
(*                                     disconnect listeners)               *)
(*                                                                         *)
(* JavaScript values are encoded as follows.  An optional value is a       *)
(* sequence of length 0 (undefined) or 1 (<<v>>).  A validation mapping    *)
(* err.errors is a record [kind, fields]: kind is "undefined", "null" or   *)
(* "map", and fields is the mapping's entries in Object.keys order, each   *)
(* [key, value] with value = [message |-> m].  A stack trace is an         *)
(* optional sequence of tokens.  The response object records every call    *)
(* made on it: the pending status code and the list of finalizing calls.   *)
(***************************************************************************)
EXTENDS Integers, Sequences, FiniteSets, TLC

VARIABLES
    env,              \* which renderer the application registered
    pc,               \* position of the request in the middleware chain
    req,              \* the request being handled
    handler,          \* the route handler fn given to catchErrors
    err,              \* the error handed to the stage about to run
    res,              \* the response: pending status and finalizing calls
    nexts,            \* every invocation of the continuation next
    ran,              \* the stages that have run, with the error each got
    pendingRedirect,  \* notFound is suspended inside next(error)
    escaped,          \* exception that left catchErrors' wrapper
    rooms,            \* transport's membership: pairs <<connection, group>>
    conn,             \* lifecycle of each connection
    lastEvent,        \* the socket event handled last
    console           \* lines written by console.log

httpVars == <<env, pc, req, handler, err, res, nexts, ran, pendingRedirect, escaped>>
sockVars == <<rooms, conn, lastEvent, console>>
vars == <<httpVars, sockVars>>

-----------------------------------------------------------------------------
(* Bounds and input domains *)

MaxFields == 2
MaxConnections == 2

NOT_FOUND == 404
INTERNAL_SERVER_ERROR == 500
UNPROCESSABLE_ENTITY == 422
UNPROCESSABLE_ENTITY_PHRASE == "Unprocessable Entity"

Undefined == <<>>
Some(v) == <<v>>

Paths == {"/nope", "/api/x"}
Accepts == {"text/html", "application/json", "text/plain"}
Environments == {"development", "production"}

FieldNames == {"email", "age", "name"}
FieldMessages == {"invalid", "required"}
Messages == {"boom"}
Statuses == {Undefined, Some(0), Some(418)}
Stacks == {Undefined, Some(<<"Error: boom", "at", "app.js:10:5">>)}

\* All sequences of distinct field entries, at most MaxFields long.
RECURSIVE FieldSeqs(_)
FieldSeqs(n) ==
    IF n = 0 THEN {<<>>}
    ELSE LET shorter == FieldSeqs(n - 1)
         IN shorter \cup
            { Append(s, [key |-> k, value |-> [message |-> m]]) :
                <<s, k, m>> \in
                  { t \in shorter \X FieldNames \X FieldMessages :
                      /\ Len(t[1]) = n - 1
                      /\ \A i \in DOMAIN t[1] : t[1][i].key # t[2] } }

ValidationMappings ==
    {[kind |-> "undefined", fields |-> <<>>], [kind |-> "null", fields |-> <<>>]}
    \cup { [kind |-> "map", fields |-> s] : s \in FieldSeqs(MaxFields) }

Errors ==
    [message : Messages, status : Statuses, stack : Stacks, errors : ValidationMappings]

\* What the route handler fn does when called.
HandlerKinds ==
    {"returnsValue", "throwsSync", "promiseResolves", "promiseRejects", "thenableRejects"}

NoRequest == [originalUrl |-> "", accept |-> "", origin |-> "none"]
NoHandler == [kind |-> "none", error |-> Undefined]
FreshResponse == [statusCode |-> 200, calls |-> <<>>]

-----------------------------------------------------------------------------
(* JavaScript helpers *)

\* !x for an optional number: undefined and 0 are falsy.
FalsyNumber(x) == x = Undefined \/ x = Some(0)

\* !err.errors: undefined and null are falsy, every object ({} included) is truthy.
FalsyMapping(m) == m.kind \in {"undefined", "null"}

\* Object.keys(err.errors)
ObjectKeys(m) == [i \in DOMAIN m.fields |-> m.fields[i].key]

\* err.errors[key]
Lookup(m, key) == m.fields[CHOOSE i \in DOMAIN m.fields : m.fields[i].key = key].value

\* new Error(message): no status, no validation mapping, a captured stack.
NewError(message) ==
    [message |-> message, status |-> Undefined,
     stack |-> Some(<<"Error: " \o message, "at", "errorHandler.js:26:17">>),
     errors |-> [kind |-> "undefined", fields |-> <<>>]]

\* A stack token the pattern /[a-z_-\d]+.js:\d+:\d+/gi matches in full.
IsSourceLocation(token) == token \in {"app.js:10:5", "errorHandler.js:26:17"}

\* err.stack.replace(/[a-z_-\d]+.js:\d+:\d+/gi, "<mark>$&</mark>")
Highlight(tokens) ==
    [i \in DOMAIN tokens |->
        IF IsSourceLocation(tokens[i])
        THEN "<mark>" \o tokens[i] \o "</mark>"
        ELSE tokens[i]]

\* err.stack || "" : the empty string has no tokens.
StackOrEmpty(stack) == IF stack = Undefined THEN <<>> ELSE stack[1]

\* resp instanceof Promise: only a native promise passes.
InstanceOfPromise(kind) == kind \in {"promiseResolves", "promiseRejects"}

-----------------------------------------------------------------------------
(* The response object and the continuation *)

\* res.status(code)
SetStatus(r, code) == [r EXCEPT !.statusCode = code]

\* res.json / res.send / res.format branch: a finalizing call with the pending status.
Finalize(r, stage, kind, body) ==
    [r EXCEPT !.calls =
        Append(@, [by |-> stage, kind |-> kind, status |-> r.statusCode, body |-> body])]

\* res.redirect(url): sets status 302 and finalizes.
Redirect(r, stage, url) ==
    Finalize(SetStatus(r, 302), stage, "redirect", [location |-> url])

\* next(arg) called by stage.
CallNext(log, stage, arg) == Append(log, [by |-> stage, arg |-> arg])

\* The error-handling middleware registered after the validation stage.
Renderer == IF env = "development" THEN "developmentErrors" ELSE "productionErrors"

\* Where control goes when the chain below the current frame has returned.
AfterReturn == IF pendingRedirect THEN "redirect" ELSE "done"

-----------------------------------------------------------------------------
(* errorHandler.js: the handlers as functions of their arguments.           *)
(* A handler's result names the response it leaves, and next: Undefined    *)
(* when the continuation was not called, Some(arg) when it was, arg being  *)
(* Undefined for next() and Some(e) for next(e).                           *)

\* The wrapper catchErrors(fn) returns, run on a request: fn is called outside
\* any try block, and only a native promise gets .catch(next).
catchErrors(h) ==
    IF h.kind = "throwsSync"
    THEN [escaped |-> h.error, catching |-> FALSE]
    ELSE [escaped |-> Undefined, catching |-> InstanceOfPromise(h.kind)]

\* notFound up to and including its call next(error).
notFound(q, r) ==
    LET error == NewError("Not found - " \o q.originalUrl)
    IN [res |-> SetStatus(r, NOT_FOUND), next |-> Some(Some(error))]

\* notFound after next(error) has returned: res.redirect("back").
notFoundResume(r) == Redirect(r, "notFound", "back")

\* errorKeys.forEach(key => res.status(422).json({status, error})), from index i.
RECURSIVE EmitEach(_, _, _, _)
EmitEach(keys, i, e, r) ==
    IF i > Len(keys) THEN r
    ELSE EmitEach(keys, i + 1, e,
            Finalize(SetStatus(r, UNPROCESSABLE_ENTITY), "flashValidationErrors", "json",
                     [status |-> UNPROCESSABLE_ENTITY_PHRASE,
                      error |-> Lookup(e.errors, keys[i]).message]))

\* Variant: the loop stops after the first key.
flashValidationErrors_FirstOnly(e, r) ==
    IF FalsyMapping(e.errors)
    THEN [res |-> r, next |-> Some(Some(e))]
    ELSE LET keys == ObjectKeys(e.errors)
         IN [res |-> EmitEach(IF keys = <<>> THEN keys ELSE <<keys[1]>>, 1, e, r),
             next |-> Undefined]

\* Variant: an empty mapping is treated like an absent one.
flashValidationErrors_EmptyForwards(e, r) ==
    IF FalsyMapping(e.errors) \/ e.errors.fields = <<>>
    THEN [res |-> r, next |-> Some(Some(e))]
    ELSE [res |-> EmitEach(ObjectKeys(e.errors), 1, e, r), next |-> Undefined]

flashValidationErrors(e, r) ==
    IF FalsyMapping(e.errors)
    THEN [res |-> r, next |-> Some(Some(e))]
    ELSE [res |-> EmitEach(ObjectKeys(e.errors), 1, e, r), next |-> Undefined]

\* Variant: the declared status is ignored.
developmentErrors_Always500(e, q, r) ==
    LET e1 == [e EXCEPT !.stack = Some(StackOrEmpty(e.stack))]
        errorDetails == [message |-> e1.message, status |-> e1.status,
                         stackHighlighted |-> Highlight(e1.stack[1])]
        r1 == SetStatus(r, INTERNAL_SERVER_ERROR)
        r2 == CASE q.accept = "text/html" ->
                     Finalize(r1, "developmentErrors", "send", [error |-> errorDetails])
                [] q.accept = "application/json" ->
                     Finalize(r1, "developmentErrors", "json", errorDetails)
                [] OTHER -> r1
    IN [res |-> r2, next |-> Some(Undefined), err |-> e1]

developmentErrors(e, q, r) ==
    LET e1 == [e EXCEPT !.stack = Some(StackOrEmpty(e.stack))]
        errorDetails == [message |-> e1.message, status |-> e1.status,
                         stackHighlighted |-> Highlight(e1.stack[1])]
        r1 == SetStatus(r, IF FalsyNumber(e1.status)
                           THEN INTERNAL_SERVER_ERROR ELSE e1.status[1])
        r2 == CASE q.accept = "text/html" ->
                     Finalize(r1, "developmentErrors", "send", [error |-> errorDetails])
                [] q.accept = "application/json" ->
                     Finalize(r1, "developmentErrors", "json", errorDetails)
                [] OTHER -> r1
    IN [res |-> r2, next |-> Some(Undefined), err |-> e1]

\* Variant: the body is reduced to the message.
productionErrors_Sanitized(e, r) ==
    [res |-> Finalize(SetStatus(r, INTERNAL_SERVER_ERROR), "productionErrors", "json",
                      [error |-> [message |-> e.message]]),
     next |-> Some(Undefined)]

productionErrors(e, r) ==
    [res |-> Finalize(SetStatus(r, INTERNAL_SERVER_ERROR), "productionErrors", "json",
                      [error |-> e]),
     next |-> Some(Undefined)]

-----------------------------------------------------------------------------
(* socket.config.js: the transport's bookkeeping the listeners call *)

SocketId(c) == "socket-" \o ToString(c)

\* socket.join(id)
join(m, c, id) == m \cup {<<c, id>>}

\* socket.leave(id)
leave(m, c, id) == m \ {<<c, id>>}

Connections == 1 .. MaxConnections
GroupIds == {"", "lobby", "order-7"}
NoEvent == [type |-> "none", conn |-> 0, id |-> "", wasMember |-> FALSE]

-----------------------------------------------------------------------------
Init ==
    /\ env \in Environments
    /\ pc = "idle"
    /\ req = NoRequest
    /\ handler = NoHandler
    /\ err = Undefined
    /\ res = FreshResponse
    /\ nexts = <<>>
    /\ ran = <<>>
    /\ pendingRedirect = FALSE
    /\ escaped = Undefined
    /\ rooms = {}
    /\ conn = [c \in Connections |-> "new"]
    /\ lastEvent = NoEvent
    /\ console = <<>>

-----------------------------------------------------------------------------
(* HTTP actions *)

\* A request starts with a fresh response and nothing recorded.  Requests share
\* no state, so a behaviour follows one request from dispatch to the end.
Begin(q, h, start) ==
    /\ pc = "idle"
    /\ req' = q
    /\ handler' = h
    /\ pc' = start
    /\ err' = Undefined
    /\ res' = FreshResponse
    /\ nexts' = <<>>
    /\ ran' = <<>>
    /\ pendingRedirect' = FALSE
    /\ escaped' = Undefined
    /\ UNCHANGED <<env, sockVars>>

\* The framework finds no route for the request and runs notFound.
DispatchUnmatched ==
    \E p \in Paths, a \in Accepts :
        Begin([originalUrl |-> p, accept |-> a, origin |-> "unmatched"], NoHandler, "notFound")

\* The framework runs a route whose handler was wrapped by catchErrors.
DispatchRoute ==
    \E p \in Paths, a \in Accepts, k \in HandlerKinds :
        \E e \in (IF k \in {"throwsSync", "promiseRejects", "thenableRejects"}
                  THEN {Some(x) : x \in Errors} ELSE {Undefined}) :
            Begin([originalUrl |-> p, accept |-> a, origin |-> "route"],
                  [kind |-> k, error |-> e], "route")

\* The wrapper runs fn: a synchronous throw leaves the wrapper, a native promise
\* is awaited with .catch(next), anything else is returned as it is.
CatchErrorsCall ==
    /\ pc = "route"
    /\ LET out == catchErrors(handler)
       IN /\ escaped' = out.escaped
          /\ pc' = IF out.catching THEN "pending" ELSE "done"
    /\ UNCHANGED <<env, req, handler, err, res, nexts, ran, pendingRedirect, sockVars>>

\* The promise fn returned settles; a rejection runs the catch callback next.
PromiseSettles ==
    /\ pc = "pending"
    /\ IF handler.kind = "promiseRejects"
       THEN /\ nexts' = CallNext(nexts, "catchErrors", handler.error)
            /\ err' = handler.error
            /\ pc' = "flash"
       ELSE /\ pc' = "done"
            /\ UNCHANGED <<nexts, err>>
    /\ UNCHANGED <<env, req, handler, res, ran, pendingRedirect, escaped, sockVars>>

\* Control after a stage: into the next error middleware when next got an error.
Forward(out, following) ==
    IF out.next = Undefined THEN AfterReturn
    ELSE IF out.next[1] = Undefined THEN AfterReturn ELSE following

NotFound ==
    /\ pc = "notFound"
    /\ LET out == notFound(req, res)
       IN /\ res' = out.res
          /\ ran' = Append(ran, [stage |-> "notFound", errIn |-> out.next[1]])
          /\ nexts' = CallNext(nexts, "notFound", out.next[1])
          /\ err' = out.next[1]
          /\ pendingRedirect' = TRUE
          /\ pc' = "flash"
    /\ UNCHANGED <<env, req, handler, escaped, sockVars>>

NotFoundRedirect ==
    /\ pc = "redirect"
    /\ res' = notFoundResume(res)
    /\ pendingRedirect' = FALSE
    /\ pc' = "done"
    /\ UNCHANGED <<env, req, handler, err, nexts, ran, escaped, sockVars>>

FlashValidationErrors ==
    /\ pc = "flash"
    /\ LET out == flashValidationErrors(err[1], res)
       IN /\ res' = out.res
          /\ ran' = Append(ran, [stage |-> "flashValidationErrors", errIn |-> err])
          /\ nexts' = IF out.next = Undefined THEN nexts
                      ELSE CallNext(nexts, "flashValidationErrors", out.next[1])
          /\ err' = IF out.next = Undefined THEN err ELSE out.next[1]
          /\ pc' = Forward(out, "render")
    /\ UNCHANGED <<env, req, handler, pendingRedirect, escaped, sockVars>>

DevelopmentErrors ==
    /\ pc = "render"
    /\ env = "development"
    /\ LET out == developmentErrors(err[1], req, res)
       IN /\ res' = out.res
          /\ ran' = Append(ran, [stage |-> "developmentErrors", errIn |-> err])
          /\ nexts' = IF out.next = Undefined THEN nexts
                      ELSE CallNext(nexts, "developmentErrors", out.next[1])
          /\ err' = Some(out.err)
          /\ pc' = AfterReturn
    /\ UNCHANGED <<env, req, handler, pendingRedirect, escaped, sockVars>>

ProductionErrors ==
    /\ pc = "render"
    /\ env = "production"
    /\ LET out == productionErrors(err[1], res)
       IN /\ res' = out.res
          /\ ran' = Append(ran, [stage |-> "productionErrors", errIn |-> err])
          /\ nexts' = IF out.next = Undefined THEN nexts
                      ELSE CallNext(nexts, "productionErrors", out.next[1])
          /\ pc' = AfterReturn
    /\ UNCHANGED <<env, req, handler, err, pendingRedirect, escaped, sockVars>>

Next ==
    \/ DispatchUnmatched
    \/ DispatchRoute
    \/ CatchErrorsCall
    \/ PromiseSettles
    \/ NotFound
    \/ NotFoundRedirect
    \/ FlashValidationErrors
    \/ DevelopmentErrors
    \/ ProductionErrors

Spec == Init /\ [][Next]_vars

-----------------------------------------------------------------------------
(* Socket actions *)

\* A peer connects: SocketServer(socket) registers the three listeners.
SocketServer(c) ==
    /\ conn[c] = "new"
    /\ conn' = [conn EXCEPT ![c] = "connected"]
    /\ lastEvent' = [type |-> "connection", conn |-> c, id |-> "", wasMember |-> FALSE]
    /\ UNCHANGED <<rooms, console, httpVars>>

JoinRoom(c, id) ==
    /\ conn[c] = "connected"
    /\ rooms' = join(rooms, c, id)
    /\ lastEvent' = [type |-> "joinRoom", conn |-> c, id |-> id,
                     wasMember |-> <<c, id>> \in rooms]
    /\ UNCHANGED <<conn, console, httpVars>>

\* Variant: the outRoom listener was copied from joinRoom and still joins.
OutRoom_Joins(c, id) ==
    /\ conn[c] = "connected"
    /\ rooms' = join(rooms, c, id)
    /\ lastEvent' = [type |-> "outRoom", conn |-> c, id |-> id,
                     wasMember |-> <<c, id>> \in rooms]
    /\ UNCHANGED <<conn, console, httpVars>>

\* Variant: the listener empties the whole group instead of removing the caller.
OutRoom_EmptiesGroup(c, id) ==
    /\ conn[c] = "connected"
    /\ rooms' = {m \in rooms : m[2] # id}
    /\ lastEvent' = [type |-> "outRoom", conn |-> c, id |-> id,
                     wasMember |-> <<c, id>> \in rooms]
    /\ UNCHANGED <<conn, console, httpVars>>

OutRoom(c, id) ==
    /\ conn[c] = "connected"
    /\ rooms' = leave(rooms, c, id)
    /\ lastEvent' = [type |-> "outRoom", conn |-> c, id |-> id,
                     wasMember |-> <<c, id>> \in rooms]
    /\ UNCHANGED <<conn, console, httpVars>>

\* The transport drops the connection from its groups, then the listener logs.
Disconnect(c) ==
    /\ conn[c] = "connected"
    /\ conn' = [conn EXCEPT ![c] = "disconnected"]
    /\ rooms' = {m \in rooms : m[1] # c}
    /\ console' = Append(console, SocketId(c) \o " disconnected")
    /\ lastEvent' = [type |-> "disconnect", conn |-> c, id |-> "", wasMember |-> FALSE]
    /\ UNCHANGED httpVars

SocketNext ==
    \/ \E c \in Connections : SocketServer(c)
    \/ \E c \in Connections, id \in GroupIds : JoinRoom(c, id)
    \/ \E c \in Connections, id \in GroupIds : OutRoom(c, id)
    \/ \E c \in Connections : Disconnect(c)

SocketSpec == Init /\ [][SocketNext]_vars

-----------------------------------------------------------------------------
(* Properties *)

CallsBy(stage) == SelectSeq(res.calls, LAMBDA c : c.by = stage)
NextsBy(stage) == SelectSeq(nexts, LAMBDA n : n.by = stage)
HasRun(stage) == \E i \in DOMAIN ran : ran[i].stage = stage
ErrIn(stage) == ran[CHOOSE i \in DOMAIN ran : ran[i].stage = stage].errIn[1]

\* C1: a request gets at most one response-finalizing call (res.json, res.send,
\* res.redirect, res.format branch), whatever the error's shape.
C1_AtMostOneFinalizingCall == Len(res.calls) <= 1

\* C2: an error raised by a handler wrapped by catchErrors, thrown synchronously
\* or delivered by a rejected promise, is passed to next exactly once and does
\* not leave the wrapper.
C2_ErrorsReachNext ==
    (handler.kind \in {"throwsSync", "promiseRejects"} /\ pc \notin {"idle", "route", "pending"})
        => /\ escaped = Undefined
           /\ Len(NextsBy("catchErrors")) = 1
           /\ NextsBy("catchErrors")[1].arg = handler.error

\* C3: for a request to an unregistered route p, the response is produced with
\* status 404 and notFound forwards an error whose message is "Not found - " + p.
C3_NotFoundIs404 ==
    (req.origin = "unmatched" /\ pc = "done")
        => /\ Len(res.calls) >= 1
           /\ res.calls[1].status = NOT_FOUND
           /\ NextsBy("notFound")[1].arg[1].message = "Not found - " \o req.originalUrl

\* C4: for a validation mapping with fields k1..kn, flashValidationErrors makes
\* exactly n emissions, the i-th with status 422 and the JSON body
\* {status: "Unprocessable Entity", error: message of ki}, in key order.
C4_OneEmissionPerField ==
    (HasRun("flashValidationErrors") /\ ErrIn("flashValidationErrors").errors.kind = "map")
        => LET fs == ErrIn("flashValidationErrors").errors.fields
               cs == CallsBy("flashValidationErrors")
           IN /\ Len(cs) = Len(fs)
              /\ \A i \in DOMAIN cs :
                    /\ cs[i].kind = "json"
                    /\ cs[i].status = 422
                    /\ cs[i].body = [status |-> "Unprocessable Entity",
                                     error |-> fs[i].value.message]

C4_Witness ==
    /\ HasRun("flashValidationErrors")
    /\ ErrIn("flashValidationErrors").errors =
          [kind |-> "map",
           fields |-> <<[key |-> "email", value |-> [message |-> "invalid"]],
                        [key |-> "age", value |-> [message |-> "required"]]>>]
    /\ Len(res.calls) = 2
    /\ res.calls[1].body.error = "invalid"
    /\ res.calls[2].body.error = "required"

\* The message the body of a developmentErrors call carries.
CarriedMessage(call) ==
    IF call.kind = "send" THEN call.body.error.message ELSE call.body.message

\* C5 as stated: developmentErrors answers an HTML- or JSON-accepting request
\* with the error's declared status when one is set and 500 otherwise, and the
\* body carries the error's message.
C5_DeclaredStatusOr500 ==
    (HasRun("developmentErrors") /\ req.accept \in {"text/html", "application/json"})
        => LET e == ErrIn("developmentErrors")
               cs == CallsBy("developmentErrors")
           IN /\ Len(cs) = 1
              /\ cs[1].status = (IF e.status # Undefined THEN e.status[1] ELSE 500)
              /\ CarriedMessage(cs[1]) = e.message

\* C5 amended: the status is the error's declared status when that is set and
\* not zero, and 500 when it is absent or zero; the body carries the message.
C5_NonZeroStatusOr500 ==
    (HasRun("developmentErrors") /\ req.accept \in {"text/html", "application/json"})
        => LET e == ErrIn("developmentErrors")
               cs == CallsBy("developmentErrors")
           IN /\ Len(cs) = 1
              /\ cs[1].status = (IF e.status \notin {Undefined, Some(0)}
                                 THEN e.status[1] ELSE 500)
              /\ CarriedMessage(cs[1]) = e.message

C5_Witness ==
    /\ HasRun("developmentErrors")
    /\ req.accept = "text/html"
    /\ ErrIn("developmentErrors").message = "boom"
    /\ ErrIn("developmentErrors").status = Some(418)
    /\ CallsBy("developmentErrors")[1].status = 418

C7_JoinThenLeave ==
    /\ lastEvent.type = "joinRoom" => <<lastEvent.conn, lastEvent.id>> \in rooms
    /\ lastEvent.type = "outRoom" => <<lastEvent.conn, lastEvent.id>> \notin rooms

C7_Witness ==
    /\ lastEvent.type = "outRoom"
    /\ lastEvent.wasMember
    /\ <<lastEvent.conn, lastEvent.id>> \notin rooms

\* C8: outRoom(g) handled by a connection that is not in g changes no
\* membership of any connection, under any interleaving of events.
C8_LeaveNonMemberIsNoOp ==
    [][(lastEvent'.type = "outRoom" /\ ~lastEvent'.wasMember) => rooms' = rooms]_vars

C8_Witness ==
    /\ lastEvent.type = "outRoom"
    /\ ~lastEvent.wasMember
    /\ \E c \in Connections : c # lastEvent.conn /\ <<c, lastEvent.id>> \in rooms
    /\ \E id \in GroupIds : <<lastEvent.conn, id>> \in rooms

\* The stage recorded at ran[i] has returned.
Returned(i) == ran[i].stage = "notFound" => ~pendingRedirect

\* C9: every stage either finalizes the response without calling next, or calls
\* next with the error it received (or created) without finalizing.
C9_FinalizeXorForward ==
    \A i \in DOMAIN ran :
        Returned(i) =>
            LET finals == CallsBy(ran[i].stage)
                fwd == NextsBy(ran[i].stage)
            IN \/ Len(finals) >= 1 /\ Len(fwd) = 0
               \/ Len(finals) = 0 /\ Len(fwd) = 1 /\ fwd[1].arg = ran[i].errIn

\* C10: flashValidationErrors calls next only when err.errors is falsy; given a
\* mapping with no fields it emits nothing and does not call next, so the
\* request reaches no later stage and gets no response.
C10_EmptyMappingStalls ==
    HasRun("flashValidationErrors")
        => LET m == ErrIn("flashValidationErrors").errors
           IN /\ NextsBy("flashValidationErrors") # <<>> => m.kind \in {"undefined", "null"}
              /\ (m.kind = "map" /\ m.fields = <<>>)
                    => /\ NextsBy("flashValidationErrors") = <<>>
                       /\ res.calls = <<>>
                       /\ pc = "done"
                       /\ ~HasRun("developmentErrors")
                       /\ ~HasRun("productionErrors")

C10_Witness ==
    /\ HasRun("flashValidationErrors")
    /\ ErrIn("flashValidationErrors").errors = [kind |-> "map", fields |-> <<>>]
    /\ pc = "done"
    /\ res.calls = <<>>

====
